---- MODULE Spec2Model ----
(***************************************************************************)
(* Model of presence_analyzer/utils.py: the memoize decorator (CACHE, the  *)
(* per-decorator Lock), the CSV loader get_data, and group_by_weekday with *)
(* the interval arithmetic it uses.                                        *)
(***************************************************************************)
EXTENDS Integers, Sequences, FiniteSets, TLC

(* ------------------------------ bounds -------------------------------- *)
\* number of request threads calling the cached loaders
NumThreads == 2
\* half windows of the cache that the clock may advance in total
MaxTicks == 3
\* rows of the attendance source
MaxRows == 3
\* dates in the mapping given to group_by_weekday
MaxDates == 3
\* invocations of the wrapped functions that the model follows
MaxLoads == 2

(* ------------------------- memoize: constants ------------------------- *)
\* @memoize(600)
Duration == 600

Threads == 1 .. NumThreads
\* the two functions decorated with @memoize(600)
Loaders == {"get_data", "get_data_xml"}
\* the clock advances between any two steps by half a window or a window
Steps == {Duration \div 2, Duration}

VARIABLES
    clock,      \* what time() returns
    CACHE,      \* the module-level dict: key -> [time, value]
    lock,       \* lock id -> holder thread, 0 when free
    pc,         \* per thread: position inside __memoize
    fn,         \* per thread: the wrapped function being called
    now,        \* per thread: local `now`
    ret,        \* per thread: outcome of the call
    loads,      \* per wrapped function: number of invocations so far
    raced,      \* per thread: version of the entry that was missing/expired
                \* when `now` was read (0 no entry, -1 entry still valid)
    invoked     \* per thread: this call invoked the wrapped function

VARIABLES
    rows,       \* get_data: the records csv.reader yields, in source order
    i,          \* get_data: number of records consumed (enumerate index)
    data,       \* get_data: the dict being built, user_id -> date -> pair
    locals,     \* get_data: user_id, date, start, end; << >> while unbound
    status      \* get_data: "idle", "reading", "returned" or "raised"

VARIABLES
    items,      \* group_by_weekday: the argument, in iteration order
    pos,        \* group_by_weekday: number of dates iterated
    result,     \* group_by_weekday: the list of 7 lists
    gstatus     \* group_by_weekday: "idle", "looping" or "returned"

cacheVars == <<clock, CACHE, lock, pc, fn, now, ret, loads, raced, invoked>>
csvVars == <<rows, i, data, locals, status>>
grpVars == <<items, pos, result, gstatus>>
vars == <<cacheVars, csvVars, grpVars>>

\* key = function.__name__
Key(l) == l

\* one lock shared by every decorated function (a module-level Lock)
LockOf_shared(l) == "get_data"
\* lock = Lock() is created once per memoize(duration) call, i.e. once per
\* decorated function
LockOf(l) == l

NoRet == [kind |-> "none", ver |-> 0]

\* a comparison that also serves an entry whose expiry equals `now`
Fresh_inclusive(t) ==
    /\ Key(fn[t]) \in DOMAIN CACHE
    /\ CACHE[Key(fn[t])].time >= now[t]
\* key in CACHE and CACHE[key]['time'] > now
Fresh(t) ==
    /\ Key(fn[t]) \in DOMAIN CACHE
    /\ CACHE[Key(fn[t])].time > now[t]

\* expiry computed when the load finished
ExpiryOf_atFinish(t) == clock + Duration
\* expiry without the duration
ExpiryOf_noDuration(t) == now[t]
\* 'time': now + duration
ExpiryOf(t) == now[t] + Duration

\* CACHE[key] = {...}: creates or replaces the entry of `key`
Store(k, e) == [x \in DOMAIN CACHE \cup {k} |-> IF x = k THEN e ELSE CACHE[x]]

\* a failure remembered in the cache
CacheAfterRaise_stored(t) ==
    Store(Key(fn[t]), [time |-> ExpiryOf(t), value |-> 0])
\* the exception leaves the with-block before line 44: CACHE is untouched
CacheAfterRaise(t) == CACHE

\* a raise that skips the release (acquire/release without try/finally)
LockAfterRaise_held(t) == lock
\* `with lock:` releases the lock when the exception leaves the block
LockAfterRaise(t) == [lock EXCEPT ![LockOf(fn[t])] = 0]

\* `with lock:` releases the lock on return
Release(t) == [lock EXCEPT ![LockOf(fn[t])] = 0]

\* calls that have read the clock and have not yet invoked or returned
Pending == {t \in Threads : pc[t] \in {"acquire", "locked"}}

\* invocations of the wrapped functions so far
RECURSIVE SumLoads(_)
SumLoads(S) ==
    IF S = {} THEN 0
    ELSE LET l == CHOOSE x \in S : TRUE IN loads[l] + SumLoads(S \ {l})

\* version of the entry under key k as seen by a reader at clock reading c
SeenExpired(k, c) ==
    IF k \notin DOMAIN CACHE THEN 0
    ELSE IF CACHE[k].time > c THEN -1 ELSE CACHE[k].value

InitCache ==
    /\ clock = 0
    /\ CACHE = << >>
    /\ lock = [k \in {LockOf(l) : l \in Loaders} |-> 0]
    /\ pc = [t \in Threads |-> "idle"]
    /\ fn = [t \in Threads |-> "none"]
    /\ now = [t \in Threads |-> 0]
    /\ ret = [t \in Threads |-> NoRet]
    /\ loads = [l \in Loaders |-> 0]
    /\ raced = [t \in Threads |-> -1]
    /\ invoked = [t \in Threads |-> FALSE]

\* lines 36-37: key = function.__name__; now = time()
Call(t, l) ==
    /\ pc[t] = "idle"
    /\ SumLoads(Loaders) + Cardinality(Pending) < MaxLoads
    /\ fn' = [fn EXCEPT ![t] = l]
    /\ now' = [now EXCEPT ![t] = clock]
    /\ pc' = [pc EXCEPT ![t] = "acquire"]
    /\ raced' = [raced EXCEPT ![t] = SeenExpired(Key(l), clock)]
    /\ UNCHANGED <<clock, CACHE, lock, ret, loads, invoked>>
    /\ UNCHANGED <<csvVars, grpVars>>

\* line 39: with lock (blocks while another thread holds it)
Acquire(t) ==
    /\ pc[t] = "acquire"
    /\ lock[LockOf(fn[t])] = 0
    /\ lock' = [lock EXCEPT ![LockOf(fn[t])] = t]
    /\ pc' = [pc EXCEPT ![t] = "locked"]
    /\ UNCHANGED <<clock, CACHE, fn, now, ret, loads, raced, invoked>>
    /\ UNCHANGED <<csvVars, grpVars>>

\* lines 40-41: the entry is valid: return CACHE[key]['value']
Hit(t) ==
    /\ pc[t] = "locked"
    /\ Fresh(t)
    /\ ret' = [ret EXCEPT ![t] = [kind |-> "value", ver |-> CACHE[Key(fn[t])].value]]
    /\ lock' = Release(t)
    /\ pc' = [pc EXCEPT ![t] = "done"]
    /\ UNCHANGED <<clock, CACHE, fn, now, loads, raced, invoked>>
    /\ UNCHANGED <<csvVars, grpVars>>

\* line 40 false, line 43 begins: function(*args, **kwargs) is invoked
Miss(t) ==
    /\ pc[t] = "locked"
    /\ ~Fresh(t)
    /\ loads' = [loads EXCEPT ![fn[t]] = @ + 1]
    /\ invoked' = [invoked EXCEPT ![t] = TRUE]
    /\ pc' = [pc EXCEPT ![t] = "load"]
    /\ UNCHANGED <<clock, CACHE, lock, fn, now, ret, raced>>
    /\ UNCHANGED <<csvVars, grpVars>>

\* lines 43-49: the function returns; the entry is stored; the lock is
\* released; the result is returned.  The value is identified by the number
\* of the invocation that produced it.
LoadReturn(t) ==
    /\ pc[t] = "load"
    /\ CACHE' = Store(Key(fn[t]), [time |-> ExpiryOf(t), value |-> loads[fn[t]]])
    /\ ret' = [ret EXCEPT ![t] = [kind |-> "value", ver |-> loads[fn[t]]]]
    /\ lock' = Release(t)
    /\ pc' = [pc EXCEPT ![t] = "done"]
    /\ UNCHANGED <<clock, fn, now, loads, raced, invoked>>
    /\ UNCHANGED <<csvVars, grpVars>>

\* line 43 raises (IOError of open, a parse error of etree.parse, ...): the
\* exception leaves the with-block and __memoize
LoadRaise(t) ==
    /\ pc[t] = "load"
    /\ CACHE' = CacheAfterRaise(t)
    /\ lock' = LockAfterRaise(t)
    /\ ret' = [ret EXCEPT ![t] = [kind |-> "raised", ver |-> loads[fn[t]]]]
    /\ pc' = [pc EXCEPT ![t] = "done"]
    /\ UNCHANGED <<clock, fn, now, loads, raced, invoked>>
    /\ UNCHANGED <<csvVars, grpVars>>

\* the caller has the outcome; the thread serves the next request
Finish(t) ==
    /\ pc[t] = "done"
    /\ pc' = [pc EXCEPT ![t] = "idle"]
    /\ fn' = [fn EXCEPT ![t] = "none"]
    /\ now' = [now EXCEPT ![t] = 0]
    /\ ret' = [ret EXCEPT ![t] = NoRet]
    /\ raced' = [raced EXCEPT ![t] = -1]
    /\ invoked' = [invoked EXCEPT ![t] = FALSE]
    /\ UNCHANGED <<clock, CACHE, lock, loads>>
    /\ UNCHANGED <<csvVars, grpVars>>

\* time passes: successive readings of time() do not decrease
Tick(d) ==
    /\ clock + d <= MaxTicks * (Duration \div 2)
    /\ clock' = clock + d
    /\ UNCHANGED <<CACHE, lock, pc, fn, now, ret, loads, raced, invoked>>
    /\ UNCHANGED <<csvVars, grpVars>>

NextCache ==
    \/ \E t \in Threads, l \in Loaders : Call(t, l)
    \/ \E t \in Threads : Acquire(t)
    \/ \E t \in Threads : Hit(t)
    \/ \E t \in Threads : Miss(t)
    \/ \E t \in Threads : LoadReturn(t)
    \/ \E t \in Threads : LoadRaise(t)
    \/ \E t \in Threads : Finish(t)
    \/ \E d \in Steps : Tick(d)


(* ------------------------------ get_data ------------------------------ *)
\* A field of a record is its text.  The user id field is the sequence of
\* its characters; a date field "Y-M-D" and a time field "H:M:S" are the
\* three numbers written between the separators.
DigitVal ==
    ("0" :> 0) @@ ("1" :> 1) @@ ("2" :> 2) @@ ("3" :> 3) @@ ("4" :> 4) @@
    ("5" :> 5) @@ ("6" :> 6) @@ ("7" :> 7) @@ ("8" :> 8) @@ ("9" :> 9)

RECURSIVE IntOf(_)
IntOf(f) ==
    IF Len(f) = 0 THEN 0
    ELSE 10 * IntOf(SubSeq(f, 1, Len(f) - 1)) + DigitVal[f[Len(f)]]

\* int(row[0]): << n >>, or << >> when ValueError is raised
ParseInt(f) ==
    IF Len(f) > 0 /\ \A c \in 1 .. Len(f) : f[c] \in DOMAIN DigitVal
    THEN << IntOf(f) >>
    ELSE << >>

IsLeap(y) == y % 4 = 0 /\ (y % 100 # 0 \/ y % 400 = 0)

DaysInMonth(y, m) ==
    IF m = 2 THEN (IF IsLeap(y) THEN 29 ELSE 28)
    ELSE IF m \in {4, 6, 9, 11} THEN 30 ELSE 31

\* datetime.strptime(row[1], '%Y-%m-%d').date(): << date >>, or << >> when
\* ValueError is raised
ParseDate(f) ==
    IF /\ f[1] \in 1 .. 9999
       /\ f[2] \in 1 .. 12
       /\ f[3] >= 1
       /\ f[3] <= DaysInMonth(f[1], f[2])
    THEN << [year |-> f[1], month |-> f[2], day |-> f[3]] >>
    ELSE << >>

\* datetime.strptime(row[2], '%H:%M:%S').time(): << time >>, or << >> when
\* ValueError is raised
ParseTime(f) ==
    IF f[1] \in 0 .. 23 /\ f[2] \in 0 .. 59 /\ f[3] \in 0 .. 59
    THEN << [hour |-> f[1], minute |-> f[2], second |-> f[3]] >>
    ELSE << >>

Unbound == [user_id |-> << >>, date |-> << >>, start |-> << >>, end |-> << >>]

\* lines 97-103: the four assignments in order; the first one that raises
\* ends the try block, so the names assigned before it keep the new values
\* and the others keep what earlier rows left in them
AfterTry(row, loc) ==
    LET u == ParseInt(row[1]) IN
    IF Len(u) = 0 THEN loc ELSE
    LET l1 == [loc EXCEPT !.user_id = u]
        d == ParseDate(row[2]) IN
    IF Len(d) = 0 THEN l1 ELSE
    LET l2 == [l1 EXCEPT !.date = d]
        s == ParseTime(row[3]) IN
    IF Len(s) = 0 THEN l2 ELSE
    LET l3 == [l2 EXCEPT !.start = s]
        e == ParseTime(row[4]) IN
    IF Len(e) = 0 THEN l3 ELSE [l3 EXCEPT !.end = e]

\* the except clause was entered for this row
ParseFails(row) ==
    \/ Len(ParseInt(row[1])) = 0
    \/ Len(ParseDate(row[2])) = 0
    \/ Len(ParseTime(row[3])) = 0
    \/ Len(ParseTime(row[4])) = 0

\* an insertion that keeps the pair already stored for the date
SetItem_keepFirst(d, u, dt, v) ==
    LET inner == IF u \in DOMAIN d THEN d[u] ELSE << >>
        put == [x \in DOMAIN inner \cup {dt} |->
                   IF x \in DOMAIN inner THEN inner[x] ELSE v]
    IN  [x \in DOMAIN d \cup {u} |-> IF x = u THEN put ELSE d[x]]
\* data.setdefault(user_id, {})[date] = {'start': start, 'end': end}
SetItem(d, u, dt, v) ==
    LET inner == IF u \in DOMAIN d THEN d[u] ELSE << >>
        put == [x \in DOMAIN inner \cup {dt} |-> IF x = dt THEN v ELSE inner[x]]
    IN  [x \in DOMAIN d \cup {u} |-> IF x = u THEN put ELSE d[x]]

\* line 105 reads user_id, date, start and end: all must be bound
AllBound(loc) ==
    /\ Len(loc.user_id) = 1
    /\ Len(loc.date) = 1
    /\ Len(loc.start) = 1
    /\ Len(loc.end) = 1

\* the records of the source: well-formed ones, ones whose first unparsable
\* field is the user id, the date, the start or the end (the fields after
\* the first unparsable one are never parsed), and ones without 4 fields
GoodUids == {<<"1">>, <<"2">>}
GoodDates == {<<2023, 1, 2>>, <<2023, 1, 9>>}
GoodStarts == {<<9, 0, 0>>, <<8, 30, 0>>}
GoodEnd == <<17, 0, 0>>
BadUid == <<"x">>
BadDate == <<2023, 13, 40>>
BadTime == <<25, 0, 0>>

RowSet ==
    {<<u, d, s, GoodEnd>> : u \in GoodUids, d \in GoodDates, s \in GoodStarts}
    \cup {<<BadUid, <<2023, 1, 2>>, <<9, 0, 0>>, GoodEnd>>}
    \cup {<<u, BadDate, <<9, 0, 0>>, GoodEnd>> : u \in GoodUids}
    \cup {<<u, d, BadTime, GoodEnd>> : u \in GoodUids, d \in GoodDates}
    \cup {<<u, d, s, BadTime>> : u \in GoodUids, d \in GoodDates, s \in GoodStarts}
    \cup {<<<<"1">>, <<2023, 1, 2>>, <<9, 0, 0>>>>}
    \cup {<<<<"1">>, <<2023, 1, 2>>, <<9, 0, 0>>, GoodEnd, GoodEnd>>}

CsvIdle ==
    /\ rows = << >>
    /\ i = 0
    /\ data = << >>
    /\ locals = Unbound
    /\ status = "idle"

\* line 89-91: data = {}, the file is open, the reader is at the first record
CsvStart ==
    /\ rows \in UNION {[1 .. n -> RowSet] : n \in 0 .. MaxRows}
    /\ i = 0
    /\ data = << >>
    /\ locals = Unbound
    /\ status = "reading"

\* lines 93-95: a record without exactly 4 fields is passed over
SkipRow ==
    /\ status = "reading"
    /\ i < Len(rows)
    /\ Len(rows[i + 1]) # 4
    /\ i' = i + 1
    /\ UNCHANGED <<rows, data, locals, status>>
    /\ UNCHANGED <<cacheVars, grpVars>>

\* lines 97-105 for a record with 4 fields: the try block, the except
\* clause that only logs, then the insertion of line 105
StoreRow ==
    /\ status = "reading"
    /\ i < Len(rows)
    /\ Len(rows[i + 1]) = 4
    /\ LET loc == AfterTry(rows[i + 1], locals) IN
        /\ AllBound(loc)
        /\ locals' = loc
        /\ data' = SetItem(data, loc.user_id[1], loc.date[1],
                           [start |-> loc.start[1], end |-> loc.end[1]])
    /\ i' = i + 1
    /\ UNCHANGED <<rows, status>>
    /\ UNCHANGED <<cacheVars, grpVars>>

\* lines 97-105 when line 105 reads a name no row has assigned yet:
\* UnboundLocalError, which no handler catches, leaves get_data
RaiseRow ==
    /\ status = "reading"
    /\ i < Len(rows)
    /\ Len(rows[i + 1]) = 4
    /\ LET loc == AfterTry(rows[i + 1], locals) IN
        /\ ~AllBound(loc)
        /\ locals' = loc
    /\ status' = "raised"
    /\ UNCHANGED <<rows, i, data>>
    /\ UNCHANGED <<cacheVars, grpVars>>

\* line 107: the reader is exhausted, return data
ReturnData ==
    /\ status = "reading"
    /\ i = Len(rows)
    /\ status' = "returned"
    /\ UNCHANGED <<rows, i, data, locals>>
    /\ UNCHANGED <<cacheVars, grpVars>>

NextCsv ==
    \/ SkipRow
    \/ StoreRow
    \/ RaiseRow
    \/ ReturnData

(* -------------------------- group_by_weekday -------------------------- *)
\* datetime.date.toordinal(), as date.weekday() computes it
DaysBeforeYear(y) ==
    (y - 1) * 365 + (y - 1) \div 4 - (y - 1) \div 100 + (y - 1) \div 400

RECURSIVE DaysBeforeMonth(_, _)
DaysBeforeMonth(y, m) ==
    IF m = 1 THEN 0 ELSE DaysBeforeMonth(y, m - 1) + DaysInMonth(y, m - 1)

ToOrdinal(d) == DaysBeforeYear(d.year) + DaysBeforeMonth(d.year, d.month) + d.day

\* date.weekday(): Monday is 0, Sunday is 6
Weekday(d) == (ToOrdinal(d) + 6) % 7

\* time_to_calc.hour * 3600 + time_to_calc.minute * 60 + time_to_calc.second
seconds_since_midnight(t) == t.hour * 3600 + t.minute * 60 + t.second

\* an interval that is never negative
interval_clamped(s, e) ==
    IF seconds_since_midnight(e) >= seconds_since_midnight(s)
    THEN seconds_since_midnight(e) - seconds_since_midnight(s)
    ELSE 0
\* seconds_since_midnight(end) - seconds_since_midnight(start)
interval(s, e) == seconds_since_midnight(e) - seconds_since_midnight(s)

\* the dates and times of day the arguments are drawn from: two Mondays, a
\* Sunday and a leap day (a Thursday)
ArgDates ==
    {[year |-> 2023, month |-> 1, day |-> 2],
     [year |-> 2023, month |-> 1, day |-> 9],
     [year |-> 2023, month |-> 1, day |-> 8],
     [year |-> 2024, month |-> 2, day |-> 29]}
ArgStarts ==
    {[hour |-> 9, minute |-> 0, second |-> 0],
     [hour |-> 17, minute |-> 30, second |-> 15]}
ArgEnds ==
    {[hour |-> 17, minute |-> 0, second |-> 0],
     [hour |-> 8, minute |-> 15, second |-> 30]}
ArgEntries == [date : ArgDates, start : ArgStarts, end : ArgEnds]

GrpIdle ==
    /\ items = << >>
    /\ pos = 0
    /\ result = << >>
    /\ gstatus = "idle"

\* line 147: result = [[], [], [], [], [], [], []]; items is a dict, so
\* its dates are distinct, iterated in the dict's order
GrpStart ==
    /\ items \in UNION {
           {s \in [1 .. n -> ArgEntries] :
               \A a, b \in 1 .. n : a # b => s[a].date # s[b].date}
           : n \in 0 .. MaxDates}
    /\ pos = 0
    /\ result = [w \in 0 .. 6 |-> << >>]
    /\ gstatus = "looping"

\* lines 148-151: one iteration of the loop
GroupStep ==
    /\ gstatus = "looping"
    /\ pos < Len(items)
    /\ LET it == items[pos + 1] IN
        result' = [result EXCEPT ![Weekday(it.date)] =
                      Append(@, interval(it.start, it.end))]
    /\ pos' = pos + 1
    /\ UNCHANGED <<items, gstatus>>
    /\ UNCHANGED <<cacheVars, csvVars>>

\* line 152: return result
GroupReturn ==
    /\ gstatus = "looping"
    /\ pos = Len(items)
    /\ gstatus' = "returned"
    /\ UNCHANGED <<items, pos, result>>
    /\ UNCHANGED <<cacheVars, csvVars>>

NextGroup ==
    \/ GroupStep
    \/ GroupReturn

(* --------------------------- specifications --------------------------- *)
\* callers of the two cached loaders
Init == InitCache /\ CsvIdle /\ GrpIdle
Next == NextCache
Spec == Init /\ [][Next]_vars

\* every invocation of a wrapped function ends, the lock is handed out
\* fairly, and a thread holding the lock goes on
Fairness ==
    /\ \A t \in Threads : SF_vars(Acquire(t))
    /\ \A t \in Threads : WF_vars(Hit(t) \/ Miss(t))
    /\ \A t \in Threads : WF_vars(LoadReturn(t) \/ LoadRaise(t))
FairSpec == Init /\ [][Next]_vars /\ Fairness

\* one run of get_data over a source
InitCsv == InitCache /\ CsvStart /\ GrpIdle
SpecCsv == InitCsv /\ [][NextCsv]_vars

\* one call of group_by_weekday
InitGroup == InitCache /\ CsvIdle /\ GrpStart
SpecGroup == InitGroup /\ [][NextGroup]_vars

(* ------------------------------- claims ------------------------------- *)
\* the step in which thread t, holding the lock, evaluates line 40
Decides(t) == pc[t] = "locked" /\ pc'[t] # "locked"
\* the step in which the wrapped function called by thread t ends
Ends(t) == pc[t] = "load" /\ pc'[t] = "done"

\* C1: a call invokes the wrapped function if and only if no entry is
\* stored under its key or the stored expiry is not strictly greater than
\* the clock reading of the call; otherwise it returns the stored value and
\* leaves the cache as it is.  A reload that returns stores the expiry
\* reading + 600 with the value it returns.  So a call less than 600 s after
\* the reading of the call that loaded is served from the cache, and one
\* 600 s or more after it reloads once.
C1_InvokesIffMissingOrExpired ==
    [][\A t \in Threads :
        LET l == fn[t]
            k == Key(fn[t])
            stale == k \notin DOMAIN CACHE \/ CACHE[k].time <= now[t]
        IN  /\ Decides(t) =>
                /\ (loads'[l] = loads[l] + 1) <=> stale
                /\ (pc'[t] = "load") <=> stale
                /\ ~stale =>
                    /\ pc'[t] = "done"
                    /\ ret'[t] = [kind |-> "value", ver |-> CACHE[k].value]
                    /\ CACHE' = CACHE
                    /\ loads' = loads
            /\ (Ends(t) /\ ret'[t].kind = "value") =>
                /\ k \in DOMAIN CACHE'
                /\ CACHE'[k] = [time |-> now[t] + Duration, value |-> ret'[t].ver]
                /\ loads' = loads
      ]_vars

\* C1's case: one call was served from the cache and a later call, 600 s
\* or more after the load, reloaded and stored its reading + 600
C1_Witness ==
    \E t1, t2 \in Threads :
        /\ pc[t1] = "done" /\ pc[t2] = "done" /\ fn[t1] = fn[t2]
        /\ ~invoked[t1] /\ ret[t1].kind = "value"
        /\ invoked[t2] /\ ret[t2].kind = "value"
        /\ ret[t2].ver > ret[t1].ver
        /\ now[t2] >= now[t1] + Duration \div 2
        /\ CACHE[Key(fn[t2])] = [time |-> now[t2] + Duration, value |-> ret[t2].ver]

\* callers t1 and t2 of the same loader that both read the clock while the
\* same entry was missing or expired, and that have both completed
Racers(t1, t2) ==
    /\ t1 # t2
    /\ fn[t1] = fn[t2]
    /\ raced[t1] >= 0
    /\ raced[t2] = raced[t1]

\* C2 as claimed, for racing callers that have all returned a value: only
\* one of them recomputed and all of them returned the same value
C2_Original ==
    \A t1, t2 \in Threads :
        (/\ Racers(t1, t2)
         /\ pc[t1] = "done" /\ pc[t2] = "done"
         /\ ret[t1].kind = "value" /\ ret[t2].kind = "value")
        => /\ ~(invoked[t1] /\ invoked[t2])
           /\ ret[t1].ver = ret[t2].ver

\* C2 amended: no two threads are inside the locked section of one loader
\* at once; and once a racing caller has recomputed and stored, a racing
\* caller that gets the lock next and whose clock reading is less than 600 s
\* after the reloader's returns a stored value, at least as new as the one
\* the reloader stored, without invoking the wrapped function
C2_Amended ==
    [][/\ \A l \in Loaders :
            Cardinality({t \in Threads : fn[t] = l /\ pc[t] \in {"locked", "load"}}) <= 1
       /\ \A t1, t2 \in Threads :
            (/\ Racers(t1, t2)
             /\ pc[t1] = "done" /\ invoked[t1] /\ ret[t1].kind = "value"
             /\ Decides(t2)
             /\ now[t2] < now[t1] + Duration)
            => /\ pc'[t2] = "done"
               /\ ret'[t2].kind = "value"
               /\ ret'[t2].ver >= ret[t1].ver
               /\ loads' = loads
               /\ CACHE' = CACHE
      ]_vars

\* C2's case: two callers raced past the same missing or expired entry, one
\* recomputed and the other, blocked meanwhile, returned what it stored
C2_Witness ==
    \E t1, t2 \in Threads :
        /\ Racers(t1, t2)
        /\ pc[t1] = "done" /\ invoked[t1] /\ ret[t1].kind = "value"
        /\ pc[t2] = "done" /\ ~invoked[t2] /\ ret[t2] = ret[t1]

\* C5: when the wrapped function raises, the caller gets the error and the
\* cache is exactly as before the call; and the next call of that loader
\* (no invocation in between, clock reading not earlier than the failed
\* call's) invokes the wrapped function again
C5_FailureIsNotCached ==
    [][\A t \in Threads :
        /\ (Ends(t) /\ ret'[t].kind = "raised") =>
            /\ CACHE' = CACHE
            /\ loads' = loads
        /\ Decides(t) =>
            \A u \in Threads \ {t} :
                (/\ pc[u] = "done" /\ fn[u] = fn[t]
                 /\ ret[u].kind = "raised"
                 /\ ret[u].ver = loads[fn[t]]
                 /\ now[t] >= now[u])
                => /\ pc'[t] = "load"
                   /\ loads'[fn[t]] = loads[fn[t]] + 1
      ]_vars

\* C5's case: a call raised and the next call of the same loader is inside
\* the wrapped function
C5_Witness ==
    \E t, u \in Threads :
        /\ t # u /\ fn[u] = fn[t]
        /\ pc[u] = "done" /\ ret[u].kind = "raised"
        /\ pc[t] = "load" /\ now[t] >= now[u]
        /\ loads[fn[t]] = ret[u].ver + 1

\* C6: a caller waiting for the lock of one loader can take it whenever
\* no caller of that same loader is inside the locked section, whatever
\* callers of the other loader do; and a step that stores the entry of one
\* loader leaves every other entry as it was
C6_LoadersIndependent ==
    [][/\ \A t \in Threads :
            (/\ pc[t] = "acquire"
             /\ ~\E u \in Threads : fn[u] = fn[t] /\ pc[u] \in {"locked", "load"})
            => lock[LockOf(fn[t])] = 0
       /\ \A t \in Threads :
            Ends(t) =>
                \A k \in DOMAIN CACHE \ {Key(fn[t])} :
                    k \in DOMAIN CACHE' /\ CACHE'[k] = CACHE[k]
      ]_vars

\* C6's case: both wrapped functions are executing at the same time, each
\* called under the lock of its own loader
C6_Witness ==
    \E t, u \in Threads :
        /\ fn[t] = "get_data" /\ pc[t] = "load" /\ lock[LockOf(fn[t])] = t
        /\ fn[u] = "get_data_xml" /\ pc[u] = "load" /\ lock[LockOf(fn[u])] = u

\* C9: every replacement of an entry strictly increases its expiry, and the
\* expiry stored is the storing caller's clock reading, taken before it got
\* the lock, plus the duration
C9_ExpiryGrows ==
    [][\A k \in DOMAIN CACHE' :
        (k \notin DOMAIN CACHE \/ CACHE'[k] # CACHE[k]) =>
            /\ k \in DOMAIN CACHE => CACHE'[k].time > CACHE[k].time
            /\ \E t \in Threads :
                /\ Ends(t)
                /\ Key(fn[t]) = k
                /\ CACHE'[k].time = now[t] + Duration
      ]_vars

\* C9's case: an entry has been replaced by a caller whose load finished
\* after the clock had moved on from its reading
C9_Witness ==
    \E t \in Threads :
        /\ pc[t] = "done" /\ invoked[t] /\ ret[t].kind = "value"
        /\ ret[t].ver > 1
        /\ Key(fn[t]) \in DOMAIN CACHE
        /\ CACHE[Key(fn[t])] = [time |-> now[t] + Duration, value |-> ret[t].ver]
        /\ now[t] + Duration < clock + Duration
        /\ \E u \in Threads : pc[u] = "done" /\ fn[u] = fn[t] /\ ret[u].ver = 1
                               /\ invoked[u] /\ ret[u].kind = "value"

\* C10: the lock of a loader is held only by a thread inside the locked
\* section, by one thread at a time; when every invocation ends and the
\* lock is handed out fairly, every waiting caller gets the lock and every
\* call completes
C10_LockAlwaysReleased ==
    /\ [](\A l \in Loaders :
            Cardinality({t \in Threads : fn[t] = l /\ pc[t] \in {"locked", "load"}}) <= 1)
    /\ [](\A t \in Threads :
            /\ pc[t] \in {"locked", "load"} => lock[LockOf(fn[t])] = t
            /\ pc[t] \in {"idle", "acquire", "done"} =>
                \A k \in DOMAIN lock : lock[k] # t)
    /\ \A t \in Threads : (pc[t] = "acquire") ~> (pc[t] = "locked")
    /\ \A t \in Threads : (pc[t] # "idle") ~> (pc[t] = "done")

\* C10's case: a caller waits for the lock while the wrapped function of
\* the same loader, called by another thread, is about to raise or return
C10_Witness ==
    \E t, u \in Threads :
        /\ fn[t] = fn[u]
        /\ pc[t] = "acquire"
        /\ pc[u] = "load"
        /\ lock[LockOf(fn[u])] = u

\* the records with 4 fields among the first n of the source
FourFields(n) == {j \in 1 .. n : Len(rows[j]) = 4}
\* the (user id, date) a well-formed record carries
KeyOfRow(j) == <<ParseInt(rows[j][1])[1], ParseDate(rows[j][2])[1]>>
\* the pair a well-formed record carries
PairOfRow(j) ==
    [start |-> ParseTime(rows[j][3])[1], end |-> ParseTime(rows[j][4])[1]]

\* C3 as claimed: a 4-field record on which parsing fails leaves the result
\* mapping as it was before the record
C3_Original ==
    [][(/\ status = "reading"
        /\ i < Len(rows)
        /\ Len(rows[i + 1]) = 4
        /\ ParseFails(rows[i + 1]))
       => data' = data
      ]_vars

\* C4 as claimed: get_data never raises on a record that fails to parse,
\* and when it has returned, every well-formed record that follows a
\* malformed one is stored
C4_Original ==
    /\ status # "raised"
    /\ status = "returned" =>
        \A j \in FourFields(Len(rows)) :
            (/\ ~ParseFails(rows[j])
             /\ \E m \in FourFields(j - 1) : ParseFails(rows[m]))
            => /\ KeyOfRow(j)[1] \in DOMAIN data
               /\ KeyOfRow(j)[2] \in DOMAIN data[KeyOfRow(j)[1]]

\* C8: while every 4-field record consumed so far is well-formed, the
\* result holds exactly the (user id, date) pairs those records carry, each
\* once, with the start and end of the last record carrying it
C8_LastWriteWins ==
    (/\ status \in {"reading", "returned"}
     /\ \A j \in FourFields(i) : ~ParseFails(rows[j]))
    => /\ \A j \in FourFields(i) :
            /\ KeyOfRow(j)[1] \in DOMAIN data
            /\ KeyOfRow(j)[2] \in DOMAIN data[KeyOfRow(j)[1]]
       /\ \A u \in DOMAIN data : \A d \in DOMAIN data[u] :
            \E j \in FourFields(i) :
                /\ KeyOfRow(j) = <<u, d>>
                /\ \A m \in FourFields(i) : KeyOfRow(m) = <<u, d>> => m <= j
                /\ data[u][d] = PairOfRow(j)

\* C8's case: get_data has returned from a source of well-formed records
\* in which a (user id, date) occurs twice with different times, next to a
\* record of another (user id, date)
C8_Witness ==
    /\ status = "returned"
    /\ \A j \in FourFields(i) : ~ParseFails(rows[j])
    /\ \E a, b, c \in FourFields(i) :
        /\ a < b
        /\ KeyOfRow(a) = KeyOfRow(b)
        /\ PairOfRow(a) # PairOfRow(b)
        /\ c < b
        /\ KeyOfRow(c) # KeyOfRow(b)

\* the weekday of the dates the arguments are drawn from, by the calendar
CalendarWeekday(d) ==
    IF d = [year |-> 2023, month |-> 1, day |-> 8] THEN 6
    ELSE IF d = [year |-> 2024, month |-> 2, day |-> 29] THEN 3
    ELSE 0

RECURSIVE TotalLen(_, _)
TotalLen(r, w) == IF w < 0 THEN 0 ELSE Len(r[w]) + TotalLen(r, w - 1)

\* C7: group_by_weekday returns 7 sequences indexed Monday=0..Sunday=6;
\* sequence w holds, in iteration order, one element per date whose weekday
\* is w, the signed difference of the seconds since midnight of its end and
\* its start; the 7 lengths sum to the number of dates
C7_GroupByWeekday ==
    gstatus = "returned" =>
        /\ DOMAIN result = 0 .. 6
        /\ \A w \in 0 .. 6 :
            LET OnDay(e) == CalendarWeekday(e.date) = w
                sel == SelectSeq(items, OnDay)
            IN  /\ Len(result[w]) = Len(sel)
                /\ \A n \in 1 .. Len(sel) :
                    result[w][n] =
                        (sel[n].end.hour * 3600 + sel[n].end.minute * 60
                            + sel[n].end.second)
                        - (sel[n].start.hour * 3600 + sel[n].start.minute * 60
                            + sel[n].start.second)
        /\ TotalLen(result, 6) = Len(items)

\* C7's case: the function has returned for three dates, two of them on
\* the same weekday, one of them with its end before its start
C7_Witness ==
    /\ gstatus = "returned"
    /\ Len(items) = 3
    /\ \E w \in 0 .. 6 : Len(result[w]) = 2 /\ result[w][1] < 0 /\ result[w][2] > 0
    /\ \E w \in 0 .. 6 : result[w] = << >>
====
